---- MODULE Spec2Model ----
(***************************************************************************)
(* Model of the IRIS VirusTotal module (iris_vt_mod/IrisVTInterface.py).   *)
(* The host calls register_hooks and hooks_handler; each call is one       *)
(* action.  Python strings are sequences of one-character strings, so that *)
(* substring tests and f-string concatenation are computed, not assumed.   *)
(***************************************************************************)
EXTENDS Integers, Sequences, FiniteSets, TLC

VARIABLES ioc, conf, call, fetch, logs, ret, orig, enrichHist

vars == <<ioc, conf, call, fetch, logs, ret, orig, enrichHist>>

(* ------------------------------ bounds --------------------------------- *)
\* number of hooks_handler invocations explored on one indicator
MaxCalls == 2
\* host-assigned module identifiers 1..MaxModuleId
MaxModuleId == 1

(* --------------------------- Python values ----------------------------- *)
PyNone == [t |-> "none"]
PyS(s) == [t |-> "str", v |-> s]
PyI(n) == [t |-> "int", v |-> n]
PyB(b) == [t |-> "bool", v |-> b]

Digit(d) == CASE d = 0 -> "0" [] d = 1 -> "1" [] d = 2 -> "2" [] d = 3 -> "3"
              [] d = 4 -> "4" [] d = 5 -> "5" [] d = 6 -> "6" [] d = 7 -> "7"
              [] d = 8 -> "8" [] d = 9 -> "9"

RECURSIVE NatStr(_)
NatStr(n) == IF n < 10 THEN <<Digit(n)>> ELSE NatStr(n \div 10) \o <<Digit(n % 10)>>

\* format(x) as used by an f-string replacement field {x}
PyStr(x) == CASE x.t = "none" -> <<"N", "o", "n", "e">>
              [] x.t = "str" -> x.v
              [] x.t = "int" -> IF x.v < 0 THEN <<"-">> \o NatStr(-x.v) ELSE NatStr(x.v)
              [] x.t = "bool" -> IF x.v THEN <<"T", "r", "u", "e">>
                                        ELSE <<"F", "a", "l", "s", "e">>

\* truth value of x in an `if x:` test
PyTruthy(x) == CASE x.t = "none" -> FALSE
                 [] x.t = "str" -> x.v # <<>>
                 [] x.t = "int" -> x.v # 0
                 [] x.t = "bool" -> x.v

\* x == 0 in Python (None == 0 is False, False == 0 is True)
PyEqZero(x) == CASE x.t = "none" -> FALSE
                 [] x.t = "str" -> FALSE
                 [] x.t = "int" -> x.v = 0
                 [] x.t = "bool" -> ~x.v

\* `sub in s` for two str
PyIn(sub, s) == \E i \in 1..(Len(s) - Len(sub) + 1) : SubSeq(s, i, i + Len(sub) - 1) = sub

(* ---------------------------- literals --------------------------------- *)
StrIpDash == <<"i", "p", "-">>
StrDomain == <<"d", "o", "m", "a", "i", "n">>
StrAsnSep == <<",", "A", "S", "N", ":">>
StrWhoisSep == <<"\n", "\n", "W", "H", "O", "I", "S", "\n", " ">>

DelegatingHooks == {"on_postload_ioc_create", "on_postload_ioc_update", "on_manual_trigger_ioc"}
RegisteredHooks == DelegatingHooks \cup {"on_preload_ioc_update"}
RegistrationOrder == <<"on_postload_ioc_create", "on_postload_ioc_update",
                       "on_preload_ioc_update", "on_manual_trigger_ioc">>

(* ------------------------- status envelopes ---------------------------- *)
\* InterfaceStatus.I2Success / I2Error, and their call form (data=, logs=)
I2Success(data, lg) == [kind |-> "Success", data |-> data, logs |-> lg]
I2Error(data, lg) == [kind |-> "Error", data |-> data, logs |-> lg]
IsFailure(status) == status.kind = "Error"

(* ----------------------------- logging --------------------------------- *)
\* one record emitted on the module logger; arg is the interpolated value
Log(level, msg, arg) == [level |-> level, msg |-> msg, arg |-> arg]
HookArg(h) == [t |-> "hook", v |-> h]

(* ------------------------- reputation client --------------------------- *)
\* what a get_*_report call can produce: an exception, a dict without
\* 'results', or a dict whose 'results' holds the fields read by the module
NoReport == [kind |-> "none", response_code |-> PyNone, asn |-> PyNone, whois |-> PyNone]
ReportRaises == [NoReport EXCEPT !.kind = "raise"]
ReportNoResults == [NoReport EXCEPT !.kind = "noresults"]
ReportResults(rc, asn, whois) ==
    [kind |-> "results", response_code |-> rc, asn |-> asn, whois |-> whois]

NoFetch == [client |-> "none", method |-> "none", value |-> PyNone]

\* get_vt_instance
get_vt_instance(cf) == IF PyTruthy(cf.vt_key_is_premium) THEN "PrivateApi" ELSE "PublicApi"

\* slip: `is not False` instead of `is True`, so an absent option counts as on
OptionIsNotFalse(cf, key) == cf[key] # PyB(FALSE)

\* self._dict_conf.get(key) is True
OptionIsTrue(cf, key) == cf[key] = PyB(TRUE)

\* slip: the response code compared with the string '0'
IsNoDataStringCompare(report) == report.response_code = PyS(<<"0">>)

\* results.get('response_code') == 0
IsNoData(report) == PyEqZero(report.response_code)

\* slip: the tag appended without its ASN: prefix
AsnTagNoPrefix(tags, asn) == PyS(PyStr(tags) \o <<",">> \o PyStr(asn))

\* slip: the tag appended only when the tag string does not hold it yet
AsnTagOnce(tags, asn) ==
    IF PyIn(StrAsnSep \o PyStr(asn), PyStr(tags)) THEN PyS(PyStr(tags))
    ELSE PyS(PyStr(tags) \o StrAsnSep \o PyStr(asn))

\* f"{ioc.ioc_tags},ASN:{report.get('results').get('asn')}"
AsnTag(tags, asn) == PyS(PyStr(tags) \o StrAsnSep \o PyStr(asn))

\* f"{ioc.ioc_description}\n\nWHOIS\n {report.get('results').get('whois')}"
WhoisDesc(desc, whois) == PyS(PyStr(desc) \o StrWhoisSep \o PyStr(whois))

BareSuccess == I2Success(PyNone, <<>>)

\* outcome of an enrichment routine: the indicator afterwards, whether an
\* exception left the routine, the returned status and the lines logged
Outcome(d, raised, status, lg, ft) ==
    [ioc |-> d, raised |-> raised, status |-> status, logs |-> lg, fetch |-> ft]

_handle_vt_ip(d, cf, report) ==
    LET ft == [client |-> get_vt_instance(cf), method |-> "get_ip_report", value |-> d.ioc_value]
        l1 == <<Log("info", "Getting IP report for", d.ioc_value)>>
        l2 == l1 \o <<Log("info", "VT report fetched.", PyNone)>>
    IN  IF report.kind = "raise" THEN Outcome(d, TRUE, BareSuccess, l1, ft)
        ELSE IF report.kind = "noresults" THEN Outcome(d, TRUE, BareSuccess, l2, ft)
        ELSE IF IsNoData(report)
             THEN Outcome(d, FALSE, BareSuccess,
                          l2 \o <<Log("error", "Got invalid feedback from VT", PyNone)>>, ft)
        ELSE IF OptionIsTrue(cf, "vt_ip_assign_asn_as_tag")
             THEN LET l3 == l2 \o <<Log("info", "Assigning new ASN tag to IOC.", PyNone)>>
                      l4 == IF report.asn = PyNone
                            THEN l3 \o <<Log("info", "ASN was nul - skipping", PyNone)>>
                            ELSE l3
                  IN  Outcome([d EXCEPT !.ioc_tags = AsnTag(d.ioc_tags, report.asn)],
                              FALSE, BareSuccess, l4, ft)
        ELSE Outcome(d, FALSE, BareSuccess, l2, ft)

_handle_vt_domain(d, cf, report) ==
    LET ft == [client |-> get_vt_instance(cf), method |-> "get_domain_report", value |-> d.ioc_value]
        l1 == <<Log("info", "Getting domain report for", d.ioc_value)>>
        l2 == l1 \o <<Log("info", "VT report fetched.", PyNone)>>
    IN  IF report.kind = "raise" THEN Outcome(d, TRUE, BareSuccess, l1, ft)
        ELSE IF report.kind = "noresults" THEN Outcome(d, TRUE, BareSuccess, l2, ft)
        ELSE IF IsNoData(report)
             THEN Outcome(d, FALSE, BareSuccess,
                          l2 \o <<Log("error", "Got invalid feedback from VT", PyNone)>>, ft)
        ELSE IF OptionIsTrue(cf, "vt_domain_add_whois_as_desc")
             THEN Outcome([d EXCEPT !.ioc_description = WhoisDesc(d.ioc_description, report.whois)],
                          FALSE, BareSuccess, l2, ft)
        ELSE Outcome(d, FALSE, BareSuccess, l2, ft)

\* slip: the two tests of _handle_ioc in the other order
RouteDomainFirst(type_name) ==
    IF PyIn(StrDomain, type_name) THEN "domain"
    ELSE IF PyIn(StrIpDash, type_name) THEN "ip"
    ELSE "skip"

\* the branch _handle_ioc takes for a type name
Route(type_name) ==
    IF PyIn(StrIpDash, type_name) THEN "ip"
    ELSE IF PyIn(StrDomain, type_name) THEN "domain"
    ELSE "skip"

_handle_ioc(d, cf, report) ==
    CASE Route(d.type_name) = "ip" -> _handle_vt_ip(d, cf, report)
      [] Route(d.type_name) = "domain" -> _handle_vt_domain(d, cf, report)
      [] OTHER -> Outcome(d, FALSE, I2Success(d, <<>>),
                          <<Log("error", "IOC type not handled by VT module. Skipping",
                                PyS(d.type_name))>>, NoFetch)

\* slip: the assignment left out
PreloadIocUpdateNoop(d) == d

\* data['ioc_value'] = "changed"
PreloadIocUpdate(d) == [d EXCEPT !.ioc_value = PyS(<<"c", "h", "a", "n", "g", "e", "d">>)]

\* slip: the unsupported hook answered with a Success envelope
UnsupportedHookReturnSuccess(d, lg) == I2Success(d, lg)

\* the return of the final else branch of hooks_handler
UnsupportedHookReturn(d, lg) == I2Error(d, lg)

\* no envelope reaches the host: an exception left hooks_handler
Raised == [kind |-> "Raised", data |-> PyNone, logs |-> <<>>]

\* the whole of hooks_handler: the indicator afterwards and what the host
\* gets back (an envelope, or the exception that left the call)
hooks_handler(hook_name, d, cf, report) ==
    LET l0 == <<Log("info", "Received", HookArg(hook_name))>>
        inner == IF hook_name \in DelegatingHooks
                 THEN _handle_ioc(d, cf, report)
                 ELSE IF hook_name = "on_preload_ioc_update"
                 THEN Outcome(PreloadIocUpdate(d), FALSE, BareSuccess, <<>>, NoFetch)
                 ELSE Outcome(d, FALSE, BareSuccess, <<>>, NoFetch)
        l1 == l0 \o inner.logs
    IN  IF hook_name \notin RegisteredHooks
        THEN LET lg == l1 \o <<Log("critical", "Received unsupported hook", HookArg(hook_name))>>
             IN  [ioc |-> d, fetch |-> NoFetch, logs |-> lg, ret |-> UnsupportedHookReturn(d, lg)]
        ELSE IF inner.raised
        THEN [ioc |-> inner.ioc, fetch |-> inner.fetch, logs |-> l1,
              ret |-> Raised]
        ELSE IF IsFailure(inner.status)
        THEN LET lg == l1 \o <<Log("error", "Encountered error processing hook", HookArg(hook_name))>>
             IN  [ioc |-> inner.ioc, fetch |-> inner.fetch, logs |-> lg,
                  ret |-> I2Error(inner.ioc, lg)]
        ELSE LET lg == l1 \o <<Log("info", "Successfully processed hook", HookArg(hook_name))>>
             IN  [ioc |-> inner.ioc, fetch |-> inner.fetch, logs |-> lg,
                  ret |-> I2Success(inner.ioc, lg)]

(* --------------------------- register_hooks ---------------------------- *)
\* the IIStatus the host returns from register_to_hook for hook h, when the
\* host rejects exactly the hooks in failed
register_to_hook(module_id, h, failed) ==
    [kind |-> IF h \in failed THEN "Error" ELSE "Success", hook |-> h, module_id |-> module_id]
StatusArg(status) == [t |-> "status", v |-> status]

\* the if/else that follows each registration, testing the variable status
RegisterBlock(status, h) ==
    IF IsFailure(status)
    THEN <<Log("error", "status.get_message()", StatusArg(status)),
           Log("error", "status.get_data()", StatusArg(status))>>
    ELSE <<Log("info", "Successfully registered hook", HookArg(h))>>

\* only the first call's result is assigned to status; the other three
\* results are discarded and the blocks test the first one again
register_hooks(module_id, failed) ==
    LET status == register_to_hook(module_id, RegistrationOrder[1], failed)
    IN  RegisterBlock(status, RegistrationOrder[1])
        \o RegisterBlock(status, RegistrationOrder[2])
        \o RegisterBlock(status, RegistrationOrder[3])
        \o RegisterBlock(status, RegistrationOrder[4])

(* ----------------------------- input sets ------------------------------ *)
TypeNames == { <<"i", "p", "-", "d", "s", "t">>,
               <<"d", "o", "m", "a", "i", "n">>,
               <<"d", "o", "m", "a", "i", "n", "|", "i", "p">>,
               <<"i", "p", "-", "d", "o", "m", "a", "i", "n">>,
               <<"I", "P", "-", "d", "s", "t">>,
               <<"m", "d", "5">> }
IocValues == { PyS(<<"1", ".", "2">>) }
Descriptions == { PyNone, PyS(<<"d">>) }
Tags == { PyNone, PyS(<<"a", ",", "b">>) }
Indicators == [type_name : TypeNames, ioc_value : IocValues,
               ioc_description : Descriptions, ioc_tags : Tags]

\* the two options read with .get() are not declared in module_configuration,
\* so they may be absent (None) as well as True or False
OptionValues == { PyNone, PyB(FALSE), PyB(TRUE) }
Confs == [vt_key_is_premium : {PyB(FALSE), PyB(TRUE)},
          vt_ip_assign_asn_as_tag : OptionValues,
          vt_domain_add_whois_as_desc : OptionValues]

ResponseCodes == { PyNone, PyI(0), PyI(1) }
AsnValues == { PyNone, PyS(<<"A", "S", "7">>), PyI(15169) }
WhoisValues == { PyNone, PyS(<<"r", ":", " ", "e">>) }
IpReports == {ReportRaises, ReportNoResults}
             \cup {ReportResults(rc, a, PyNone) : rc \in ResponseCodes, a \in AsnValues}
DomainReports == {ReportRaises, ReportNoResults}
                 \cup {ReportResults(rc, PyNone, w) : rc \in ResponseCodes, w \in WhoisValues}

HookNames == RegisteredHooks \cup {"unknown_event", "on_postload_asset_create"}

\* the reports the client can hand to this invocation: none when no routine
\* asks for one
ReportsFor(hook_name, d) ==
    IF hook_name \notin DelegatingHooks THEN {NoReport}
    ELSE CASE Route(d.type_name) = "ip" -> IpReports
           [] Route(d.type_name) = "domain" -> DomainReports
           [] OTHER -> {NoReport}

(* --------------------------- state machine ----------------------------- *)
NoReturn == [kind |-> "None", data |-> PyNone, logs |-> <<>>]

\* summary of the hooks_handler invocations made so far on the indicator
\*   n       : how many there were
\*   asns    : the asn values of the reports the IP routine got with results
\*   uniform : every one of them ran the IP routine on a report with
\*             results, a response_code other than 0 and an asn
NextHist(h, hook_name, d, report) ==
    LET ip == hook_name \in DelegatingHooks /\ Route(d.type_name) = "ip"
        enriched == ip /\ report.kind = "results" /\ ~IsNoData(report)
    IN  [n |-> h.n + 1,
         asns |-> IF ip /\ report.kind = "results" THEN h.asns \cup {report.asn} ELSE h.asns,
         uniform |-> h.uniform /\ enriched /\ report.asn # PyNone]

Init ==
    /\ ioc \in Indicators
    /\ conf \in Confs
    /\ orig = ioc
    /\ call = [op |-> "init", hook |-> "", module_id |-> 0, failed |-> {},
               report |-> NoReport, data |-> ioc]
    /\ fetch = NoFetch
    /\ logs = <<>>
    /\ ret = NoReturn
    /\ enrichHist = [n |-> 0, asns |-> {}, uniform |-> TRUE]

\* the host registers the module: register_hooks(module_id).  The host does
\* this once, when the module is added, before it triggers any hook.
RegisterHooks ==
    /\ call.op = "init"
    /\ \E module_id \in 1..MaxModuleId, failed \in SUBSET RegisteredHooks :
         /\ call' = [op |-> "register_hooks", hook |-> "", module_id |-> module_id,
                     failed |-> failed, report |-> NoReport, data |-> ioc]
         /\ logs' = register_hooks(module_id, failed)
         /\ ret' = NoReturn
         /\ fetch' = NoFetch
         /\ UNCHANGED <<ioc, conf, orig, enrichHist>>

\* the host triggers a hook: hooks_handler(hook_name, data)
HooksHandler ==
    /\ enrichHist.n < MaxCalls
    /\ \E hook_name \in HookNames :
         \E report \in ReportsFor(hook_name, ioc) :
            LET r == hooks_handler(hook_name, ioc, conf, report)
            IN  /\ call' = [op |-> "hooks_handler", hook |-> hook_name, module_id |-> 0,
                            failed |-> {}, report |-> report, data |-> ioc]
                /\ ioc' = r.ioc
                /\ fetch' = r.fetch
                /\ logs' = r.logs
                /\ ret' = r.ret
                /\ enrichHist' = NextHist(enrichHist, hook_name, ioc, report)
                /\ UNCHANGED <<conf, orig>>

Next == RegisterHooks \/ HooksHandler

Spec == Init /\ [][Next]_vars

(* ------------------------ vocabulary of the claims --------------------- *)
HookCalled == call.op = "hooks_handler"
Delegated == HookCalled /\ call.hook \in DelegatingHooks
HasIpDash(d) == PyIn(<<"i", "p", "-">>, d.type_name)
HasDomain(d) == PyIn(<<"d", "o", "m", "a", "i", "n">>, d.type_name)
\* the invocation ran the IP (domain) routine on a report with results and a
\* response_code that is not 0
IpEnriched == /\ Delegated /\ fetch.method = "get_ip_report"
              /\ call.report.kind = "results" /\ call.report.response_code # PyI(0)
DomainEnriched == /\ Delegated /\ fetch.method = "get_domain_report"
                  /\ call.report.kind = "results" /\ call.report.response_code # PyI(0)
TagOption == conf.vt_ip_assign_asn_as_tag
WhoisOption == conf.vt_domain_add_whois_as_desc
SameValue == ioc.ioc_value = call.data.ioc_value
SameDescription == ioc.ioc_description = call.data.ioc_description
SameTags == ioc.ioc_tags = call.data.ioc_tags
Succeeded == ret.kind = "Success" /\ ret.data = ioc

RECURSIVE Copies(_, _)
Copies(s, n) == IF n = 0 THEN <<>> ELSE s \o Copies(s, n - 1)

IsPrefix(p, s) == Len(p) <= Len(s) /\ SubSeq(s, 1, Len(p)) = p

\* the level of the first line of each if/else block in the log of
\* register_hooks (an error block has two lines, a success block one)
RECURSIVE BlockHeads(_)
BlockHeads(lg) ==
    IF lg = <<>> THEN <<>>
    ELSE IF Head(lg).level = "error" THEN <<Head(lg)>> \o BlockHeads(SubSeq(lg, 3, Len(lg)))
    ELSE <<Head(lg)>> \o BlockHeads(Tail(lg))

(* -------------------------------- C1 ----------------------------------- *)
\* C1: when the IP routine gets a report with response_code other than 0 and
\* no asn while vt_ip_assign_asn_as_tag is True, tagging is skipped: ioc_tags
\* after the call equals ioc_tags before it.
C1_AbsentAsnSkipsTagging ==
    (IpEnriched /\ TagOption = PyB(TRUE) /\ call.report.asn = PyNone) => SameTags

(* -------------------------------- C2 ----------------------------------- *)
\* C2: in register_hooks every one of the four registrations reports its own
\* outcome: the block of hook h logs an error exactly when the host rejected
\* h, and logs 'Successfully registered h' exactly when the host accepted h.
C2_EachRegistrationReportsItsOwnOutcome ==
    call.op = "register_hooks" =>
        LET heads == BlockHeads(logs)
        IN  /\ Len(heads) = 4
            /\ \A i \in 1..4 :
                 /\ heads[i].level = "error" <=> RegistrationOrder[i] \in call.failed
                 /\ (heads[i].level = "info" /\ heads[i].arg = HookArg(RegistrationOrder[i]))
                        <=> RegistrationOrder[i] \notin call.failed

(* -------------------------------- C3 ----------------------------------- *)
\* C3: when a delegating hook's enrichment fails unexpectedly (the client
\* call raises, or the report has no 'results'), hooks_handler still returns
\* an Error envelope carrying the input data; no exception leaves it.
C3_UnexpectedFailureBecomesErrorEnvelope ==
    (Delegated /\ call.report.kind \in {"raise", "noresults"}) =>
        (ret.kind = "Error" /\ ret.data = ioc /\ ioc = call.data)

(* -------------------------------- C4 ----------------------------------- *)
\* C4 as stated: a type name containing "ip-" runs the IP routine, EVERY type
\* name containing "domain" runs the domain routine (also one that contains
\* "ip-" as well), and any other type name runs no routine, fetches nothing,
\* leaves the indicator unchanged and succeeds.
C4_EveryDomainTypeRunsDomainRoutine ==
    Delegated =>
        /\ HasIpDash(call.data) => fetch.method = "get_ip_report"
        /\ HasDomain(call.data) => fetch.method = "get_domain_report"
        /\ (~HasIpDash(call.data) /\ ~HasDomain(call.data)) =>
               (fetch = NoFetch /\ ioc = call.data /\ Succeeded)

\* C4 amended: a type name containing "ip-" runs the IP routine (only), a
\* type name containing "domain" but not "ip-" runs the domain routine, and
\* any other type name runs no routine, fetches nothing, leaves the indicator
\* unchanged and succeeds.
C4_RoutingBySubstringIpFirst ==
    Delegated =>
        /\ HasIpDash(call.data) => fetch.method = "get_ip_report"
        /\ (HasDomain(call.data) /\ ~HasIpDash(call.data)) => fetch.method = "get_domain_report"
        /\ (~HasIpDash(call.data) /\ ~HasDomain(call.data)) =>
               (fetch = NoFetch /\ ioc = call.data /\ Succeeded)

C4_Witness ==
    /\ Delegated /\ HasIpDash(call.data) /\ HasDomain(call.data)
    /\ fetch.method = "get_ip_report"

(* -------------------------------- C5 ----------------------------------- *)
\* C5: whichever routine runs and whatever the options are, a report with
\* response_code == 0 leaves value, description and tags as they were and the
\* hook returns a Success envelope.
C5_NoDataIsSuccessfulNoOp ==
    (Delegated /\ call.report.kind = "results" /\ call.report.response_code = PyI(0)) =>
        (ioc = call.data /\ Succeeded)

C5_Witness ==
    /\ Delegated /\ fetch.method = "get_ip_report" /\ TagOption = PyB(TRUE)
    /\ call.report.kind = "results" /\ call.report.response_code = PyI(0)
    /\ call.report.asn # PyNone
    /\ ret.kind = "Success"

(* -------------------------------- C6 ----------------------------------- *)
\* C6: a hook name other than the four registered ones gets an Error envelope
\* whose data is the input object; no routine runs, no report is fetched and
\* value, description and tags are not changed.
C6_UnsupportedHookIsError ==
    (HookCalled /\ call.hook \notin {"on_postload_ioc_create", "on_postload_ioc_update",
                                     "on_preload_ioc_update", "on_manual_trigger_ioc"}) =>
        (ret.kind = "Error" /\ ret.data = ioc /\ ioc = call.data /\ fetch = NoFetch)

C6_Witness == HookCalled /\ call.hook = "unknown_event" /\ ret.kind = "Error"

(* -------------------------------- C7 ----------------------------------- *)
\* C7: after the IP routine ran on a report with response_code other than 0
\* and asn A, ioc_tags is "<original_tags>,ASN:A" when
\* vt_ip_assign_asn_as_tag is True and is the original ioc_tags when it is
\* not; value and description are unchanged and the result is success.
C7_AsnTagAppended ==
    (IpEnriched /\ call.report.asn # PyNone) =>
        /\ TagOption = PyB(TRUE) =>
              ioc.ioc_tags = PyS(PyStr(call.data.ioc_tags) \o <<",", "A", "S", "N", ":">>
                                   \o PyStr(call.report.asn))
        /\ TagOption # PyB(TRUE) => SameTags
        /\ SameValue /\ SameDescription /\ Succeeded

C7_Witness ==
    /\ IpEnriched /\ TagOption = PyB(TRUE)
    /\ call.data.ioc_tags = PyS(<<"a", ",", "b">>)
    /\ call.report.asn = PyS(<<"A", "S", "7">>)
    /\ ioc.ioc_tags = PyS(<<"a", ",", "b", ",", "A", "S", "N", ":", "A", "S", "7">>)

(* -------------------------------- C8 ----------------------------------- *)
\* C8: after the domain routine ran on a report with response_code other than
\* 0 and whois text W, ioc_description is "<original_description>\n\nWHOIS\n W"
\* when vt_domain_add_whois_as_desc is True and is the original description
\* when it is not; value and tags are unchanged and the result is success.
C8_WhoisAppended ==
    (DomainEnriched /\ call.report.whois # PyNone) =>
        /\ WhoisOption = PyB(TRUE) =>
              ioc.ioc_description =
                  PyS(PyStr(call.data.ioc_description)
                        \o <<"\n", "\n", "W", "H", "O", "I", "S", "\n", " ">>
                        \o PyStr(call.report.whois))
        /\ WhoisOption # PyB(TRUE) => SameDescription
        /\ SameValue /\ SameTags /\ Succeeded

C8_Witness ==
    /\ DomainEnriched /\ WhoisOption = PyB(TRUE)
    /\ call.data.ioc_description = PyS(<<"d">>)
    /\ call.report.whois = PyS(<<"r", ":", " ", "e">>)
    /\ ioc.ioc_description =
           PyS(<<"d", "\n", "\n", "W", "H", "O", "I", "S", "\n", " ", "r", ":", " ", "e">>)

(* -------------------------------- C9 ----------------------------------- *)
\* C9: on_preload_ioc_update always sets ioc_value to "changed" and returns a
\* Success envelope whose data is the input object, whatever the prior value,
\* type name, description and tags; nothing is fetched and description and
\* tags are unchanged.
C9_PreloadSetsValueChanged ==
    (HookCalled /\ call.hook = "on_preload_ioc_update") =>
        /\ ioc.ioc_value = PyS(<<"c", "h", "a", "n", "g", "e", "d">>)
        /\ Succeeded
        /\ fetch = NoFetch
        /\ SameDescription /\ SameTags /\ ioc.type_name = call.data.type_name

C9_Witness ==
    /\ HookCalled /\ call.hook = "on_preload_ioc_update"
    /\ call.data.ioc_value = PyS(<<"1", ".", "2">>)
    /\ ioc.ioc_value = PyS(<<"c", "h", "a", "n", "g", "e", "d">>)

(* -------------------------------- C10 ---------------------------------- *)
\* C10: n successful IP enrichments of one indicator with tagging enabled,
\* response_code other than 0 and the same asn A leave ioc_tags as the
\* original tags followed by exactly n copies of ",ASN:A"; and no invocation
\* removes or rewrites what ioc_tags held before it.
C10_RepeatedEnrichmentAppendsEveryTime ==
    /\ \A a \in AsnValues :
          (enrichHist.uniform /\ enrichHist.asns = {a} /\ TagOption = PyB(TRUE)) =>
              ioc.ioc_tags = PyS(PyStr(orig.ioc_tags)
                                   \o Copies(<<",", "A", "S", "N", ":">> \o PyStr(a),
                                             enrichHist.n))
    /\ (HookCalled /\ ioc.ioc_tags # call.data.ioc_tags) =>
           IsPrefix(PyStr(call.data.ioc_tags), PyStr(ioc.ioc_tags))

C10_Witness ==
    /\ enrichHist.uniform /\ enrichHist.n = 2 /\ TagOption = PyB(TRUE)
    /\ enrichHist.asns = {PyS(<<"A", "S", "7">>)}
    /\ orig.ioc_tags = PyS(<<"a", ",", "b">>)
    /\ ioc.ioc_tags = PyS(<<"a", ",", "b", ",", "A", "S", "N", ":", "A", "S", "7",
                            ",", "A", "S", "N", ":", "A", "S", "7">>)

====
